---- MODULE Spec2Model ----
(***************************************************************************)
(* The call-graph construction pass of PyCG                                *)
(* (pycg/processing/cgprocessor.py, class CallGraphProcessor).             *)
(*                                                                         *)
(* A namespace "a.g.f" is the sequence <<"a", "g", "f">> of its dot-free   *)
(* components, so utils.join_ns is Append and string concatenation with a  *)
(* "." in between is \o.  The recursive tree walk is an explicit agenda    *)
(* (work) per processor; a recursive submodule analysis pushes a new       *)
(* processor on procs.                                                     *)
(***************************************************************************)
EXTENDS Integers, Sequences, FiniteSets, TLC

VARIABLES
    procs,           \* stack of CallGraphProcessor objects, the last one is running
    call_graph,      \* the shared CallGraph: [nodes, edges]
    def_manager,     \* the shared definition store: namespace -> Definition
    lambda_counter,  \* scope_manager: per scope lambda counter
    reachable,       \* the last answer of get_all_reachable_functions
    log              \* history of the run: closure computations, walks, visits

vars == <<procs, call_graph, def_manager, lambda_counter, reachable, log>>

\* ------------------------------------------------------------------ bounds
MaxMods == 2      \* modules the import manager knows
MaxChain == 2     \* longest attribute chain m.p.q of the analysed program
MaxNest == 3      \* depth of the chained call h()()()
\* the interpreter gives up a recursion that no import graph over Modules needs
RecursionLimit == MaxMods + 2

ModNames == <<"a", "b", "c", "d">>
AttrNames == <<"p", "q", "r", "s">>
Modules == {ModNames[i] : i \in 1..MaxMods}
RootModule == ModNames[1]

\* ------------------------------------------------------------ syntax trees
Name(id) == [kind |-> "Name", id |-> id]
Attribute(value, attr) == [kind |-> "Attribute", value |-> value, attr |-> attr]
Call(func, args, keywords) ==
    [kind |-> "Call", func |-> func, args |-> args, keywords |-> keywords]
Keyword(arg, value) == [arg |-> arg, value |-> value]
Lambda(body) == [kind |-> "Lambda", body |-> body]
FunctionDef(name, decorator_list, body) ==
    [kind |-> "FunctionDef", name |-> name,
     decorator_list |-> decorator_list, body |-> body]
ModuleNode(name) == [kind |-> "Module", name |-> name]

RECURSIVE Chain(_, _)
\* root.p.q... with k attribute accesses
Chain(root, k) ==
    IF k = 0 THEN root ELSE Attribute(Chain(root, k - 1), AttrNames[k])

RECURSIVE Nest(_, _)
\* f()()...() with k calls
Nest(f, k) == IF k = 0 THEN f ELSE Call(Nest(f, k - 1), <<>>, <<>>)

\* The module analysed first: every resolution branch of the pass occurs in it.
RootBody ==
    <<Call(Name("len"), <<Name("x")>>, <<>>),
      Call(Name("zz"), <<>>, <<>>)>>
    \o [k \in 1..MaxChain |-> Call(Chain(Name("m"), k), <<>>, <<>>)]
    \o <<Call(Attribute(Name("n"), "p"), <<>>, <<>>),
         Call(Name("C"), <<>>, <<>>),
         Call(Name("K"), <<>>, <<>>),
         Call(Name("N"), <<>>, <<>>),
         Call(Name("u"), <<>>, <<>>),
         Nest(Name("h"), MaxNest),
         Call(Name("f"), <<Call(Name("r"), <<>>, <<>>)>>,
              <<Keyword("key", Lambda(Call(Name("d"), <<>>, <<>>)))>>),
         FunctionDef("g",
                     <<Name("d"), Name("e"), Name("zz"), Attribute(Name("m"), "p")>>,
                     <<Call(Name("f"), <<>>, <<>>), Call(Name("d"), <<>>, <<>>)>>)>>

\* Every other module.
SubBody ==
    <<Call(Name("f"), <<>>, <<>>),
      FunctionDef("g", <<>>, <<Call(Name("len"), <<>>, <<>>)>>)>>

Contents(modname) == IF modname = RootModule THEN RootBody ELSE SubBody

\* ------------------------------------------------------------- namespaces
join_ns(ns, name) == Append(ns, name)
BUILTIN_NAME == "<builtin>"
RETURN_NAME == "<RETURN>"
CLS_INIT == "__init__"
get_lambda_name(counter) == "<lambda" \o ToString(counter) \o ">"
Builtins == {"len", "print"}
NoNs == <<>>

\* ------------------------------------------------------ definition store
Definition(ns, type, callable, points_to) ==
    [ns |-> ns, type |-> type, callable |-> callable, points_to |-> points_to]

\* The definitions the earlier passes registered for module M; the imported
\* name m stands for the module m alone, or for the function f as well.
DefsOf(M, m_also_f) ==
    {Definition(<<M>>, "MOD", FALSE, {}),
     Definition(<<M, "f">>, "FUN", TRUE, {}),
     Definition(<<M, "r">>, "FUN", TRUE, {}),
     Definition(<<M, "d">>, "FUN", TRUE, {}),
     Definition(<<M, "h">>, "FUN", TRUE, {}),
     Definition(<<M, "w">>, "FUN", TRUE, {}),
     Definition(<<M, "e">>, "NAME", TRUE, {<<M, "w">>}),
     Definition(<<M, "n">>, "NAME", TRUE, {<<M, "f">>}),
     Definition(<<M, "m">>, "NAME", FALSE,
                IF m_also_f THEN {<<"m">>, <<M, "f">>} ELSE {<<"m">>}),
     Definition(<<M, "u">>, "NAME", FALSE, {<<M, "ghost">>, <<M, "f">>}),
     Definition(<<M, "C">>, "CLS", FALSE, {}),
     Definition(<<M, "C", CLS_INIT>>, "FUN", TRUE, {}),
     Definition(<<M, "K">>, "CLS", TRUE, {}),
     Definition(<<M, "N">>, "CLS", FALSE, {}),
     Definition(<<M, "g">>, "FUN", TRUE, {}),
     Definition(<<M, "g", "f">>, "NAME", FALSE, {}),
     Definition(<<M, "g", "d">>, "FUN", TRUE, {}),
     Definition(<<M, get_lambda_name(1)>>, "FUN", TRUE, {})}

\* The store, with module m either external (unanalysed) or internal.
DefStore(m_external, m_also_f) ==
    LET all == UNION {DefsOf(M, m_also_f) : M \in Modules}
               \cup {Definition(<<"m">>, IF m_external THEN "EXT" ELSE "MOD",
                                m_external, {})}
    IN [ns \in {d.ns : d \in all} |-> CHOOSE d \in all : d.ns = ns]

DefStores == {DefStore(x, y) : x \in BOOLEAN, y \in BOOLEAN}

get(store, ns) == IF ns \in DOMAIN store THEN {store[ns]} ELSE {}
is_callable(defi) == defi.callable
is_ext_def(defi) == defi.type = "EXT"
is_function_def(defi) == defi.type = "FUN"

RECURSIVE Leaves(_, _, _)
\* the namespaces ns may ultimately resolve to
Leaves(store, ns, seen) ==
    IF ns \in seen THEN {}
    ELSE IF ns \notin DOMAIN store THEN {ns}
    ELSE IF store[ns].points_to = {} THEN {ns}
    ELSE UNION {Leaves(store, t, seen \cup {ns}) : t \in store[ns].points_to}

transitive_closure(store) == [ns \in DOMAIN store |-> Leaves(store, ns, {})]

closured_get(closured, ns) == IF ns \in DOMAIN closured THEN closured[ns] ELSE {}

\* ------------------------------------------------------------ scope chain
\* scope namespace -> [parent, defs: bare name -> namespace of its Definition]
ScopeNs == UNION {{<<M>>, <<M, "g">>, <<M, get_lambda_name(1)>>} : M \in Modules}

Scopes ==
    [s \in ScopeNs |->
        IF Len(s) = 1
        THEN [parent |-> NoNs,
              defs |-> [x \in {"f", "r", "d", "h", "e", "n", "m", "u", "C", "K", "N", "g"}
                          |-> join_ns(s, x)]]
        ELSE IF s[2] = "g"
        THEN [parent |-> <<s[1]>>, defs |-> [x \in {"f", "d"} |-> join_ns(s, x)]]
        ELSE [parent |-> <<s[1]>>, defs |-> [x \in {} |-> NoNs]]]

get_scope(ns) == IF ns \in DOMAIN Scopes THEN {Scopes[ns]} ELSE {}

RECURSIVE LookUp(_, _)
LookUp(scope_ns, name) ==
    IF scope_ns \notin DOMAIN Scopes THEN {}
    ELSE IF name \in DOMAIN Scopes[scope_ns].defs
         THEN {Scopes[scope_ns].defs[name]}
         ELSE LookUp(Scopes[scope_ns].parent, name)

\* scope_manager.get_def: the namespaces (none or one) of the Definition of name
get_def(store, current_ns, name) ==
    {ns \in LookUp(current_ns, name) : ns \in DOMAIN store}

\* class_manager: class namespace -> method resolution order
Mro(cls) == IF Len(cls) = 2 /\ cls[2] = "K" THEN <<cls, <<cls[1], "C">>>> ELSE <<cls>>
Classes == UNION {{<<M, "C">>, <<M, "K">>, <<M, "N">>} : M \in Modules}


RECURSIVE FindIn(_, _, _, _, _)
FindIn(store, mro, i, fn, ext_names) ==
    IF i > Len(mro) THEN ext_names
    ELSE LET ns == join_ns(mro[i], fn) IN
         IF ns \in DOMAIN store THEN {ns}
         ELSE FindIn(store, mro, i + 1, fn,
                     IF \E p \in get(store, mro[i]) : is_ext_def(p)
                     THEN ext_names \cup {ns} ELSE ext_names)

\* the namespaces of method fn of class cls_name, searched along its hierarchy
find_cls_fun_ns(store, cls_name, fn) ==
    IF cls_name \notin Classes THEN {}
    ELSE FindIn(store, Mro(cls_name), 1, fn, {})

\* ------------------------------------------------------------- processor
current_ns(self) == <<self.modname>> \o self.name_stack

Item(op, node) == [op |-> op, node |-> node]
Event(ev, node, ns) == [ev |-> ev, node |-> node, ns |-> ns]

init_processor_shared(modname, store, modules_analyzed) ==
    [self |-> [modname |-> modname,
               closured |-> transitive_closure(store),
               name_stack |-> <<>>,
               last_called_names |-> {},
               modules_analyzed |-> modules_analyzed \cup {modname},
               work |-> <<Item("analyze", ModuleNode(modname))>>],
     log |-> IF modules_analyzed = {}
             THEN <<Event("closure", ModuleNode(modname), <<modname>>)>> ELSE <<>>]

\* CallGraphProcessor.__init__: the new object and what constructing it did
init_processor(modname, store, modules_analyzed) ==
    [self |-> [modname |-> modname,
               closured |-> transitive_closure(store),
               name_stack |-> <<>>,
               last_called_names |-> {},
               modules_analyzed |-> modules_analyzed \cup {modname},
               work |-> <<Item("analyze", ModuleNode(modname))>>],
     log |-> <<Event("closure", ModuleNode(modname), <<modname>>)>>]

\* -------------------------------------------------------- name resolution
RECURSIVE Candidates(_, _, _)
\* the namespaces an expression may refer to: scope lookup plus closure
Candidates(self, store, expr) ==
    IF expr.kind = "Name"
    THEN UNION {closured_get(self.closured, d) :
                    d \in get_def(store, current_ns(self), expr.id)}
    ELSE IF expr.kind = "Attribute"
    THEN UNION {closured_get(self.closured, join_ns(p, expr.attr)) :
                    p \in Candidates(self, store, expr.value)}
    ELSE IF expr.kind = "Call"
    THEN UNION {closured_get(self.closured, join_ns(n, RETURN_NAME)) :
                    n \in Candidates(self, store, expr.func)}
    ELSE {}

retrieve_call_names(self, store, node) == Candidates(self, store, node.func)

retrieve_parent_names(self, store, node) == Candidates(self, store, node.value)

\* what an expression evaluates to: Definitions, or something that is none
NotADefinition == [isdef |-> FALSE, ns |-> NoNs]
Decoded(ns) == [isdef |-> TRUE, ns |-> ns]

decode_node(self, store, expr) ==
    IF expr.kind = "Name"
    THEN IF get_def(store, current_ns(self), expr.id) = {}
         THEN {NotADefinition}
         ELSE {Decoded(d) : d \in get_def(store, current_ns(self), expr.id)}
    ELSE IF expr.kind = "Attribute"
    THEN {Decoded(join_ns(p, expr.attr)) :
            p \in {q \in retrieve_parent_names(self, store, expr) :
                        join_ns(q, expr.attr) \in DOMAIN store}}
    ELSE IF expr.kind = "Call"
    THEN {Decoded(join_ns(n, RETURN_NAME)) :
            n \in {q \in Candidates(self, store, expr.func) :
                        join_ns(q, RETURN_NAME) \in DOMAIN store}}
    ELSE {NotADefinition}

is_builtin(name) == name \in Builtins

has_ext_parent_outermost(self, store, node) ==
    IF node.kind # "Attribute" THEN FALSE
    ELSE \E parent \in retrieve_parent_names(self, store, node) :
            \E defi \in get(store, parent) : is_ext_def(defi)

RECURSIVE has_ext_parent(_, _, _)
has_ext_parent(self, store, node) ==
    IF node.kind # "Attribute" THEN FALSE
    ELSE IF \E parent \in retrieve_parent_names(self, store, node) :
                \E defi \in get(store, parent) : is_ext_def(defi)
         THEN TRUE
         ELSE has_ext_parent(self, store, node.value)

RECURSIVE AttrSuffix(_, _)
\* the loop of get_full_attr_names: the dotted suffix, and the node it stops at
AttrSuffix(node, name) ==
    IF node.kind = "Attribute"
    THEN AttrSuffix(node.value,
                    IF name = <<>> THEN <<node.attr>> ELSE <<node.attr>> \o name)
    ELSE [name |-> name, node |-> node]

RECURSIVE AttrSuffixReversed(_, _)
AttrSuffixReversed(node, name) ==
    IF node.kind = "Attribute"
    THEN AttrSuffixReversed(node.value,
                    IF name = <<>> THEN <<node.attr>> ELSE name \o <<node.attr>>)
    ELSE [name |-> name, node |-> node]

get_full_attr_names_reversed(self, store, node) ==
    LET w == AttrSuffixReversed(node, <<>>) IN
    IF w.node.kind # "Name" THEN {}
    ELSE {id \o w.name :
            id \in UNION {closured_get(self.closured, d) :
                            d \in get_def(store, current_ns(self), w.node.id)}}

get_full_attr_names(self, store, node) ==
    LET w == AttrSuffix(node, <<>>) IN
    IF w.node.kind # "Name" THEN {}
    ELSE {id \o w.name :
            id \in UNION {closured_get(self.closured, d) :
                            d \in get_def(store, current_ns(self), w.node.id)}}

\* ------------------------------------------------------------ call graph
add_node(cg, ns) == [cg EXCEPT !.nodes = @ \cup {ns}]
add_edge(cg, src, dest) == [cg EXCEPT !.edges = @ \cup {<<src, dest>>}]

RECURSIVE add_all(_, _)
\* one add_edge per (caller, callee) pair
add_all(cg, pairs) ==
    IF pairs = {} THEN cg
    ELSE LET e == CHOOSE x \in pairs : TRUE IN
         add_all(add_edge(cg, e[1], e[2]), pairs \ {e})

add_edges(cg, src, dests) == add_all(cg, {<<src, d>> : d \in dests})


\* ---------------------------------------------------------------- the pass
Top == procs[Len(procs)]
SetTop(self) == [procs EXCEPT ![Len(procs)] = self]
HasItem(op) == Top.work # <<>> /\ Head(Top.work).op = op
Node == Head(Top.work).node
Visits(kind) == HasItem("visit") /\ Node.kind = kind
VisitAll(nodes) == [i \in 1..Len(nodes) |-> Item("visit", nodes[i])]
Logged(ev) == Append(log, Event(ev, Node, current_ns(Top)))

\* analyze(): walk the module's tree, then its submodules
analyze ==
    /\ HasItem("analyze")
    /\ procs' = SetTop([Top EXCEPT !.work =
                    VisitAll(Contents(Node.name))
                    \o <<Item("analyze_submodules", Node)>> \o Tail(@)])
    /\ log' = Logged("analyze")
    /\ UNCHANGED <<call_graph, def_manager, lambda_counter, reachable>>

decorator_edges_direct(self, store, decorator) ==
    {<<current_ns(self), d.ns>> : d \in {x \in decode_node(self, store, decorator) : x.isdef}}

\* the edges one decorator of a function definition contributes
decorator_edges(self, store, decorator) ==
    {<<current_ns(self), name>> :
        name \in UNION {closured_get(self.closured, d.ns) :
                            d \in {x \in decode_node(self, store, decorator) : x.isdef}}}

RECURSIVE DecoratorItems(_, _)
DecoratorItems(decorator_list, i) ==
    IF i > Len(decorator_list) THEN <<>>
    ELSE <<Item("visit", decorator_list[i]), Item("decorate", decorator_list[i])>>
         \o DecoratorItems(decorator_list, i + 1)

\* visit_FunctionDef: each decorator is visited and decoded in turn, then the
\* definition itself is registered
visit_FunctionDef ==
    /\ Visits("FunctionDef")
    /\ procs' = SetTop([Top EXCEPT !.work =
                    DecoratorItems(Node.decorator_list, 1)
                    \o <<Item("define", Node)>> \o Tail(@)])
    /\ log' = Logged("visit")
    /\ UNCHANGED <<call_graph, def_manager, lambda_counter, reachable>>

decorate ==
    /\ HasItem("decorate")
    /\ call_graph' = add_all(call_graph, decorator_edges(Top, def_manager, Node))
    /\ procs' = SetTop([Top EXCEPT !.work = Tail(@)])
    /\ log' = Logged("decorate")
    /\ UNCHANGED <<def_manager, lambda_counter, reachable>>

define ==
    /\ HasItem("define")
    /\ call_graph' = add_node(call_graph, join_ns(current_ns(Top), Node.name))
    /\ procs' = SetTop([Top EXCEPT
                    !.name_stack = Append(@, Node.name),
                    !.work = VisitAll(Node.body) \o <<Item("pop", Node)>> \o Tail(@)])
    /\ log' = Logged("define")
    /\ UNCHANGED <<def_manager, lambda_counter, reachable>>

\* leaving the body of a function or lambda restores the enclosing namespace
pop ==
    /\ HasItem("pop")
    /\ procs' = SetTop([Top EXCEPT
                    !.name_stack = SubSeq(@, 1, Len(@) - 1),
                    !.work = Tail(@)])
    /\ UNCHANGED <<call_graph, def_manager, lambda_counter, reachable, log>>

visit_Lambda ==
    /\ Visits("Lambda")
    /\ current_ns(Top) \in DOMAIN lambda_counter
    /\ LET counter == lambda_counter[current_ns(Top)] + 1
           lambda_name == get_lambda_name(counter)
           lambda_fullns == join_ns(current_ns(Top), lambda_name)
       IN /\ lambda_counter' = [lambda_counter EXCEPT ![current_ns(Top)] = counter]
          /\ call_graph' = add_node(call_graph, lambda_fullns)
          /\ procs' = SetTop([Top EXCEPT
                          !.name_stack = Append(@, lambda_name),
                          !.work = <<Item("visit", Node.body), Item("pop", Node)>>
                                   \o Tail(@)])
    /\ log' = Logged("visit")
    /\ UNCHANGED <<def_manager, reachable>>

visit_Call_items_callee_last(node) ==
    VisitAll(node.args)
    \o VisitAll([i \in 1..Len(node.keywords) |-> node.keywords[i].value])
    \o <<Item("resolve", node), Item("visit", node.func)>>

\* the order in which visit_Call handles a call expression
visit_Call_items(node) ==
    VisitAll(node.args)
    \o VisitAll([i \in 1..Len(node.keywords) |-> node.keywords[i].value])
    \o <<Item("visit", node.func), Item("resolve", node)>>

visit_Call ==
    /\ Visits("Call")
    /\ procs' = SetTop([Top EXCEPT !.work = visit_Call_items(Node) \o Tail(@)])
    /\ log' = Logged("visit")
    /\ UNCHANGED <<call_graph, def_manager, lambda_counter, reachable>>

pointer_edges_uncallable(store, pointer) ==
    IF get(store, pointer) = {} THEN {}
    ELSE {pointer}
         \cup (IF store[pointer].type = "CLS"
               THEN find_cls_fun_ns(store, pointer, CLS_INIT) ELSE {})

\* the callees one resolved name contributes
pointer_edges(store, pointer) ==
    IF get(store, pointer) = {} THEN {}
    ELSE (IF is_callable(store[pointer]) THEN {pointer} ELSE {})
         \cup (IF store[pointer].type = "CLS"
               THEN find_cls_fun_ns(store, pointer, CLS_INIT) ELSE {})

unresolved_edges_bare(self, store, node) ==
    IF node.func.kind = "Attribute" /\ has_ext_parent(self, store, node.func)
    THEN get_full_attr_names(self, store, node.func)
    ELSE IF node.func.kind = "Name" /\ node.func.id # "" /\ is_builtin(node.func.id)
    THEN {<<node.func.id>>}
    ELSE {}

\* the callees of a call whose callee resolves to no names
unresolved_edges(self, store, node) ==
    IF node.func.kind = "Attribute" /\ has_ext_parent(self, store, node.func)
    THEN get_full_attr_names(self, store, node.func)
    ELSE IF node.func.kind = "Name" /\ node.func.id # "" /\ is_builtin(node.func.id)
    THEN {join_ns(<<BUILTIN_NAME>>, node.func.id)}
    ELSE {}

\* visit_Call after its children: resolve the callee and record the edges
resolve ==
    /\ HasItem("resolve")
    /\ LET names == retrieve_call_names(Top, def_manager, Node) IN
        IF names = {}
        THEN /\ call_graph' = add_edges(call_graph, current_ns(Top),
                                        unresolved_edges(Top, def_manager, Node))
             /\ procs' = SetTop([Top EXCEPT !.work = Tail(@)])
        ELSE /\ call_graph' = add_edges(call_graph, current_ns(Top),
                                UNION {pointer_edges(def_manager, p) : p \in names})
             /\ procs' = SetTop([Top EXCEPT !.last_called_names = names,
                                            !.work = Tail(@)])
    /\ log' = Logged("resolve")
    /\ UNCHANGED <<def_manager, lambda_counter, reachable>>

\* ast.NodeVisitor.generic_visit for the other expressions
generic_visit ==
    /\ Visits("Name") \/ Visits("Attribute")
    /\ procs' = SetTop([Top EXCEPT !.work =
                    (IF Node.kind = "Attribute"
                     THEN <<Item("visit", Node.value)>> ELSE <<>>) \o Tail(@)])
    /\ log' = Logged("visit")
    /\ UNCHANGED <<call_graph, def_manager, lambda_counter, reachable>>


\* ------------------------------------------------------------- submodules
InOrder(mods) == SelectSeq(SubSeq(ModNames, 1, MaxMods), LAMBDA m : m \in mods)

submodule_kwargs_fresh(self) == [modules_analyzed |-> {}]

\* what analyze_submodules hands to every submodule's processor
submodule_kwargs(self) == [modules_analyzed |-> self.modules_analyzed]

\* analyze_submodules: one recursive analysis per import of the module, in the
\* order the import manager lists them
analyze_submodules ==
    /\ HasItem("analyze_submodules")
    /\ \E imports \in SUBSET Modules :
          procs' = SetTop([Top EXCEPT !.work =
                      [i \in 1..Len(InOrder(imports)) |->
                            Item("analyze_submodule", ModuleNode(InOrder(imports)[i]))]
                      \o Tail(@)])
    /\ UNCHANGED <<call_graph, def_manager, lambda_counter, reachable, log>>

\* an import that was analysed already is skipped
skip_submodule ==
    /\ HasItem("analyze_submodule")
    /\ Node.name \in Top.modules_analyzed
    /\ procs' = SetTop([Top EXCEPT !.work = Tail(@)])
    /\ UNCHANGED <<call_graph, def_manager, lambda_counter, reachable, log>>

\* any other import gets a processor of its own, which runs before the
\* importing one goes on
analyze_submodule ==
    /\ HasItem("analyze_submodule")
    /\ Node.name \notin Top.modules_analyzed
    /\ Len(procs) < RecursionLimit
    /\ LET made == init_processor(Node.name, def_manager,
                                  submodule_kwargs(Top).modules_analyzed)
       IN /\ procs' = Append(procs, made.self)
          /\ log' = log \o made.log
    /\ UNCHANGED <<call_graph, def_manager, lambda_counter, reachable>>

\* the submodule's analysis is over: the importing processor takes over what
\* it analysed and goes on with its next import
return_from_submodule ==
    /\ Len(procs) > 1
    /\ Top.work = <<>>
    /\ LET parent == procs[Len(procs) - 1] IN
       procs' = SubSeq(procs, 1, Len(procs) - 2)
                \o <<[parent EXCEPT
                        !.modules_analyzed = @ \cup Top.modules_analyzed,
                        !.work = Tail(@)]>>
    /\ UNCHANGED <<call_graph, def_manager, lambda_counter, reachable, log>>

\* ------------------------------------------------------ reachable functions
RECURSIVE ReachableFrom(_, _, _, _, _, _)
\* count_all: whether a definition that is no function takes its name too
ReachableFrom(self, store, scope_ns, left, acc, count_all) ==
    IF scope_ns \notin DOMAIN Scopes THEN acc.reachable
    ELSE IF left = {}
    THEN LET parent == Scopes[scope_ns].parent IN
         IF parent \notin DOMAIN Scopes THEN acc.reachable
         ELSE ReachableFrom(self, store, parent, DOMAIN Scopes[parent].defs,
                            acc, count_all)
    ELSE LET name == CHOOSE x \in left : TRUE
             defi == store[Scopes[scope_ns].defs[name]]
             counted == is_function_def(defi) /\ name \notin acc.names
         IN ReachableFrom(self, store, scope_ns, left \ {name},
                [reachable |-> IF counted
                               THEN acc.reachable \cup closured_get(self.closured, defi.ns)
                               ELSE acc.reachable,
                 names |-> IF counted \/ count_all
                           THEN acc.names \cup {name} ELSE acc.names],
                count_all)

reachable_functions_shadowed(self, store) ==
    ReachableFrom(self, store, current_ns(self),
                  IF current_ns(self) \in DOMAIN Scopes
                  THEN DOMAIN Scopes[current_ns(self)].defs ELSE {},
                  [reachable |-> {}, names |-> {}], TRUE)

reachable_functions(self, store) ==
    ReachableFrom(self, store, current_ns(self),
                  IF current_ns(self) \in DOMAIN Scopes
                  THEN DOMAIN Scopes[current_ns(self)].defs ELSE {},
                  [reachable |-> {}, names |-> {}], FALSE)

\* a consumer asks the running processor for the functions reachable from
\* its current namespace
get_all_reachable_functions ==
    /\ reachable' = [asked |-> TRUE, ns |-> current_ns(Top),
                     names |-> reachable_functions(Top, def_manager)]
    /\ UNCHANGED <<procs, call_graph, def_manager, lambda_counter, log>>

\* ------------------------------------------------------------ specification
Init ==
    /\ def_manager \in DefStores
    /\ LET made == init_processor(RootModule, def_manager, {}) IN
        /\ procs = <<made.self>>
        /\ log = made.log
    /\ call_graph = [nodes |-> {}, edges |-> {}]
    /\ lambda_counter = [s \in ScopeNs |-> 0]
    /\ reachable = [asked |-> FALSE, ns |-> NoNs, names |-> {}]

Walk ==
    \/ analyze
    \/ visit_FunctionDef
    \/ decorate
    \/ define
    \/ pop
    \/ visit_Lambda
    \/ visit_Call
    \/ resolve
    \/ generic_visit
    \/ analyze_submodules
    \/ skip_submodule
    \/ analyze_submodule
    \/ return_from_submodule

Next == Walk \/ get_all_reachable_functions

Spec == Init /\ [][Next]_vars

\* the pass is one synchronous traversal: it runs until nothing is left to do
FairSpec == Spec /\ WF_vars(Walk)

Done == Len(procs) = 1 /\ Top.work = <<>>

\* ================================================================= claims
Edges == call_graph.edges
NewEdges == call_graph'.edges \ call_graph.edges
Happened(ev, node, ns) == \E i \in DOMAIN log : log[i] = Event(ev, node, ns)
Count(ev, modname) ==
    Cardinality({i \in DOMAIN log : log[i].ev = ev /\ log[i].ns = <<modname>>})
\* the running processor as it was when its current namespace was ns
At(ns) == [Top EXCEPT !.modname = ns[1], !.name_stack = Tail(ns)]
\* the step of the pass that consumes the item on top of the agenda
Step(op) == HasItem(op) /\ log' # log
MExternal == is_ext_def(def_manager[<<"m">>])
DefinitionsOf(ns, expr) == {d \in decode_node(At(ns), def_manager, expr) : d.isdef}
Decorators(fdef) == {fdef.decorator_list[i] : i \in DOMAIN fdef.decorator_list}

\* C1: every edge (caller, callee) of the call graph has both its caller and
\* its callee in the node set.
C1_EdgeEndpointsAreNodes ==
    \A e \in Edges : e[1] \in call_graph.nodes /\ e[2] \in call_graph.nodes

C2_ClosureEdgesPresent ==
    \A i \in DOMAIN log : log[i].ev = "define" =>
        \A dec \in Decorators(log[i].node) :
            \A d \in DefinitionsOf(log[i].ns, dec) :
                \A n \in closured_get(Top.closured, d.ns) :
                    <<log[i].ns, n>> \in Edges

C2_DecorateStep ==
    Step("decorate") =>
        /\ \A e \in NewEdges :
              /\ e[1] = current_ns(Top)
              /\ \E d \in DefinitionsOf(current_ns(Top), Node) :
                    e[2] \in closured_get(Top.closured, d.ns)
        /\ current_ns(Top') = current_ns(Top)

Constructors(names) ==
    UNION {find_cls_fun_ns(def_manager, p, CLS_INIT) :
            p \in {q \in names : q \in DOMAIN def_manager /\ def_manager[q].type = "CLS"}}

C3_ResolveStep ==
    LET names == retrieve_call_names(Top, def_manager, Node)
        cur == current_ns(Top)
    IN (Step("resolve") /\ names # {}) =>
        /\ \A c \in Constructors(names) : <<cur, c>> \in call_graph'.edges
        /\ \A p \in names :
              (p \notin DOMAIN def_manager \/ ~def_manager[p].callable) =>
                    (<<cur, p>> \in NewEdges => p \in Constructors(names))
        /\ \A e \in NewEdges : e[1] = cur /\ e[2] \in names \cup Constructors(names)

\* C3: resolving a call whose callee resolves to a class with a constructor
\* adds an edge from the current namespace to every constructor namespace of
\* the class; the class itself gets an edge only if its Definition is
\* callable, and a candidate without a Definition gets none.
C3_ConstructorEdges == [][C3_ResolveStep]_vars

C3_Witness ==
    /\ Happened("resolve", Call(Name("K"), <<>>, <<>>), <<RootModule>>)
    /\ Happened("resolve", Call(Name("u"), <<>>, <<>>), <<RootModule>>)
    /\ <<<<RootModule>>, <<RootModule, "C", CLS_INIT>>>> \in Edges
    /\ <<<<RootModule>>, <<RootModule, "C">>>> \notin Edges
    /\ <<<<RootModule>>, <<RootModule, "K">>>> \in Edges
    /\ <<<<RootModule>>, <<RootModule, "ghost">>>> \notin Edges

RECURSIVE RootOf(_)
RootOf(expr) == IF expr.kind = "Attribute" THEN RootOf(expr.value) ELSE expr

RECURSIVE Accesses(_)
\* s1, ..., sk of root.s1...sk
Accesses(expr) ==
    IF expr.kind = "Attribute" THEN Append(Accesses(expr.value), expr.attr) ELSE <<>>

RootClosure(self, expr) ==
    IF RootOf(expr).kind # "Name" THEN {}
    ELSE UNION {closured_get(self.closured, d) :
                    d \in get_def(def_manager, current_ns(self), RootOf(expr).id)}

C4_ResolveStep ==
    LET root == RootOf(Node.func)
        cur == current_ns(Top)
        paths == {n \o Accesses(Node.func) : n \in RootClosure(Top, Node.func)}
    IN (/\ Step("resolve")
        /\ retrieve_call_names(Top, def_manager, Node) = {}
        /\ Node.func.kind = "Attribute"
        /\ root.kind = "Name"
        /\ \E n \in RootClosure(Top, Node.func) :
                n \in DOMAIN def_manager /\ def_manager[n].type = "EXT")
       => /\ \A path \in paths : <<cur, path>> \in call_graph'.edges
          /\ NewEdges \subseteq {<<cur, path>> : path \in paths}

\* C4: resolving a call whose callee root.s1...sk resolves to no names, with
\* the root identifier resolving to an external definition, adds the edge from
\* the current namespace to n.s1...sk for every n in the closure of the
\* root's definition.
C4_ExternalFallbackEdges == [][C4_ResolveStep]_vars

C4_Witness ==
    /\ MExternal
    /\ Cardinality(Top.closured[<<RootModule, "m">>]) = 2
    /\ Happened("resolve", Call(Chain(Name("m"), MaxChain), <<>>, <<>>), <<RootModule>>)
    /\ <<<<RootModule>>, <<"m">> \o SubSeq(AttrNames, 1, MaxChain)>> \in Edges

C5_ResolveStep ==
    LET cur == current_ns(Top)
        func == Node.func
    IN (Step("resolve") /\ retrieve_call_names(Top, def_manager, Node) = {}) =>
        /\ (func.kind = "Name" /\ func.id \in Builtins) =>
              /\ <<cur, <<BUILTIN_NAME, func.id>>>> \in call_graph'.edges
              /\ NewEdges \subseteq {<<cur, <<BUILTIN_NAME, func.id>>>>}
        /\ (func.kind = "Name" /\ func.id \notin Builtins) => NewEdges = {}

\* C5: resolving a call whose callee is a bare identifier that resolves to no
\* names adds exactly the edge from the current namespace to the built-in
\* namespace qualified by the identifier when it is a built-in name, and no
\* edge otherwise.
C5_BuiltinEdge == [][C5_ResolveStep]_vars

C5_Witness ==
    /\ Happened("resolve", Call(Name("len"), <<Name("x")>>, <<>>), <<RootModule>>)
    /\ Happened("resolve", Call(Name("zz"), <<>>, <<>>), <<RootModule>>)
    /\ <<<<RootModule>>, <<BUILTIN_NAME, "len">>>> \in Edges
    /\ \A e \in Edges : e[2] # <<BUILTIN_NAME, "zz">>

\* the children of a call expression, in the order the claim gives them
Children(call) ==
    call.args \o [i \in 1..Len(call.keywords) |-> call.keywords[i].value]
    \o <<call.func>>

RECURSIVE VisitedInOrder(_, _, _, _)
\* the visits of children k.. are logged, one after the other, from index from on
VisitedInOrder(children, ns, k, from) ==
    IF k > Len(children) THEN TRUE
    ELSE \E i \in from..Len(log) :
            /\ log[i] = Event("visit", children[k], ns)
            /\ (children[k].kind = "Call" =>
                    \E j \in (i + 1)..Len(log) : log[j] = Event("resolve", children[k], ns))
            /\ VisitedInOrder(children, ns, k + 1, i + 1)

LastVisit(node, ns) ==
    CHOOSE i \in DOMAIN log :
        /\ log[i] = Event("visit", node, ns)
        /\ \A j \in (i + 1)..Len(log) : log[j] # Event("visit", node, ns)

\* the callees the resolution of call at namespace ns records
Callees(call, ns) ==
    LET names == retrieve_call_names(At(ns), def_manager, call) IN
    IF names = {} THEN unresolved_edges(At(ns), def_manager, call)
    ELSE UNION {pointer_edges(def_manager, p) : p \in names}

\* C6: when visit_Call comes to resolve a call, every positional argument,
\* then every keyword value, then the callee has been visited, a child that
\* is itself a call has been resolved, and the edges of every call resolved
\* so far are in the graph.
C6_ChildrenBeforeResolve ==
    /\ HasItem("resolve") =>
          /\ Happened("visit", Node, current_ns(Top))
          /\ VisitedInOrder(Children(Node), current_ns(Top), 1,
                            LastVisit(Node, current_ns(Top)) + 1)
    /\ \A i \in DOMAIN log : log[i].ev = "resolve" =>
          \A c \in Callees(log[i].node, log[i].ns) : <<log[i].ns, c>> \in Edges

C6_Witness ==
    /\ HasItem("resolve")
    /\ Node = Nest(Name("h"), MaxNest)
    /\ retrieve_call_names(Top, def_manager, Node) = {}
    /\ retrieve_call_names(Top, def_manager, Node.func) = {}
    /\ <<<<RootModule>>, <<RootModule, "h">>>> \in Edges

ClosureComputations == {i \in DOMAIN log : log[i].ev = "closure"}

C8_EachModuleOnce ==
    /\ [](\A m \in Modules : Count("analyze", m) <= 1)
    /\ <>Done

\* a module imported a second time, by a module it imports itself, is skipped
C8_Witness ==
    /\ Len(procs) = 2
    /\ HasItem("analyze_submodule")
    /\ Node.name = RootModule
    /\ Count("analyze", RootModule) = 1

RECURSIVE ScopeChain(_)
\* the scopes from ns outward
ScopeChain(ns) ==
    IF ns \notin DOMAIN Scopes THEN <<>> ELSE <<ns>> \o ScopeChain(Scopes[ns].parent)

LocalNames == UNION {DOMAIN Scopes[s].defs : s \in ScopeNs}

FunctionNames(scope_ns) ==
    {x \in DOMAIN Scopes[scope_ns].defs :
        def_manager[Scopes[scope_ns].defs[x]].type = "FUN"}

\* C9: the answer is the union of the closures of the function definitions
\* of the scopes from the current one outward, a name counting for the
\* innermost scope that defines it as a function.
C9_ReachableFunctions ==
    reachable.asked =>
        LET chain == ScopeChain(reachable.ns) IN
        reachable.names =
            UNION {closured_get(Top.closured, Scopes[chain[l]].defs[x]) :
                    <<l, x>> \in {<<k, y>> \in (DOMAIN chain) \X LocalNames :
                        /\ y \in FunctionNames(chain[k])
                        /\ \A j \in 1..(k - 1) : y \notin FunctionNames(chain[j])}}

C9_Witness ==
    /\ reachable.asked
    /\ reachable.ns = <<RootModule, "g">>
    /\ <<RootModule, "f">> \in reachable.names
    /\ <<RootModule, "g", "d">> \in reachable.names
    /\ <<RootModule, "d">> \notin reachable.names

RECURSIVE Levels(_)
\* the attribute accesses of a chain, from the whole expression inward
Levels(expr) ==
    IF expr.kind = "Attribute" THEN {expr} \cup Levels(expr.value) ELSE {}

ExternalLevel(self, expr) ==
    \E level \in Levels(expr) :
        \E parent \in Candidates(self, def_manager, level.value) :
            parent \in DOMAIN def_manager /\ def_manager[parent].type = "EXT"

C10_Answer ==
    Top.work # <<>> =>
        LET expr == IF Head(Top.work).op = "resolve" THEN Node.func ELSE Node IN
        /\ has_ext_parent(Top, def_manager, expr) = ExternalLevel(Top, expr)
        /\ expr.kind # "Attribute" => ~has_ext_parent(Top, def_manager, expr)

C10_ResolveStep ==
    (/\ Step("resolve")
     /\ retrieve_call_names(Top, def_manager, Node) = {}
     /\ Node.func.kind = "Attribute"
     /\ ~ExternalLevel(Top, Node.func)) => NewEdges = {}

\* C10: has_ext_parent answers true exactly when, at some level of the
\* attribute chain, a candidate namespace of the parent expression has an
\* external Definition, and false for what is no attribute access; the
\* fallback of visit_Call adds no edge for a chain without such a level.
C10_ExternalParent == []C10_Answer /\ [][C10_ResolveStep]_vars

C10_Witness ==
    /\ MExternal
    /\ Happened("resolve", Call(Attribute(Name("n"), "p"), <<>>, <<>>), <<RootModule>>)
    /\ Happened("resolve", Call(Chain(Name("m"), MaxChain), <<>>, <<>>), <<RootModule>>)
    /\ \A e \in Edges : e[2] # <<RootModule, "f", "p">> /\ e[2] # <<RootModule, "n", "p">>

====
